---- MODULE Spec2Model ----
(***************************************************************************)
(* Account & Ledger API of Insight Hunter: the two request routers of the  *)
(* repository (the unnamed worker with validation and pagination, called   *)
(* "part_008" here, and src/worker/index.ts, called "worker"), the D1      *)
(* tables they use, and the token and password libraries they call.        *)
(*                                                                         *)
(* One action is one request handler.  A handler that touches the store    *)
(* once is one atomic step taken at that store access; signup touches the  *)
(* store twice (SELECT, then INSERT) with an await in between, so it is    *)
(* two steps and other requests may run between them.                      *)
(***************************************************************************)
EXTENDS Integers, Sequences, FiniteSets, TLC

(***************************************************************************)
(* Bounds of the model.                                                    *)
(***************************************************************************)
MaxInflight == 2      \* signup requests that may be suspended at once
MaxTokens   == 2      \* tokens issued by login over a behaviour
MaxTxs      == 2      \* rows of the transactions table
MaxIssue    == 1      \* latest second at which the clock instants start
MaxSalt     == 1      \* distinct salts bcrypt may draw

(***************************************************************************)
(* JavaScript values.                                                      *)
(***************************************************************************)
Null  == [t |-> "null"]
Undef == [t |-> "undefined"]
Str(s) == [t |-> "string", s |-> s]
Num(n) == [t |-> "number", n |-> n]
NaN   == [t |-> "number", nan |-> TRUE]
Bool(b) == [t |-> "boolean", b |-> b]

IsStr(v) == v.t = "string"
IsNum(v) == v.t = "number"
IsNaN(v) == v.t = "number" /\ "nan" \in DOMAIN v

\* JavaScript truthiness: undefined, null, '', 0 and NaN are falsy
Truthy(v) ==
  CASE v.t = "undefined" -> FALSE
    [] v.t = "null"      -> FALSE
    [] v.t = "string"    -> Len(v.s) > 0
    [] v.t = "number"    -> IF IsNaN(v) THEN FALSE ELSE v.n # 0
    [] v.t = "boolean"   -> v.b
    [] OTHER             -> TRUE

\* a || b
OrElse(a, b) == IF Truthy(a) THEN a ELSE b

(***************************************************************************)
(* Strings that the code inspects character by character are sequences of  *)
(* one-character strings.                                                  *)
(***************************************************************************)
EmailA   == <<"a", "@", "x", ".", "y">>
EmailB   == <<"b", "@", "x", ".", "y">>
EmailBad == <<"a", " ", "@", "x">>

Whitespace == {" "}

\* [^\s@]+ over s[lo..hi]
PlainRun(s, lo, hi) ==
  /\ lo <= hi
  /\ \A k \in lo..hi : s[k] \notin Whitespace /\ s[k] # "@"

\* /^[^\s@]+@[^\s@]+\.[^\s@]+$/.test(s)
EmailRegex(s) ==
  \E i \in 1..Len(s) : \E j \in 1..Len(s) :
    /\ i < j
    /\ s[i] = "@"
    /\ s[j] = "."
    /\ PlainRun(s, 1, i - 1)
    /\ PlainRun(s, i + 1, j - 1)
    /\ PlainRun(s, j + 1, Len(s))

validateEmail(email) == IsStr(email) /\ EmailRegex(email.s)

MinPasswordLen == 6

validatePassword(password) == IsStr(password) /\ Len(password.s) >= MinPasswordLen

(***************************************************************************)
(* bcrypt: hash draws a salt and digests the salt and the key, which is    *)
(* the first 72 bytes of the plaintext (the key schedule reads no more);   *)
(* compare recomputes the digest with the salt kept in the hash.           *)
(***************************************************************************)
Salts == 1..MaxSalt

BcryptKeyBytes == 72

\* the bytes of the plaintext that reach the digest
BcryptKey(plain) ==
  IF Len(plain) > BcryptKeyBytes THEN SubSeq(plain, 1, BcryptKeyBytes) ELSE plain

\* a column that keeps the password as it came, with no salt worked in
bcryptHashPlain(plain, salt) == [salt |-> 0, digest |-> <<0, plain>>]

bcryptHash(plain, salt) == [salt |-> salt, digest |-> <<salt, BcryptKey(plain)>>]

bcryptCompare(plain, hash) == hash.digest = <<hash.salt, BcryptKey(plain)>>

(***************************************************************************)
(* @tsndr/cloudflare-worker-jwt.  A token is its three parts: the payload, *)
(* and the signature, which is the (key, signed payload) it was made from. *)
(* A string that does not split into three parts has parts # 3; a token    *)
(* whose payload part does not decode has payload = Undef.                 *)
(***************************************************************************)
JWT_SECRET  == "env.JWT_SECRET"
WorkerSecret == "replace-this-with-very-secure-secret"
OtherSecret == "another-key"

TTL == 7 * 24 * 60 * 60

\* the payload of a token: a JavaScript object with the claims
Claims(id, email) == [t |-> "object", id |-> id, email |-> email]

\* sign(payload, secret): iat is added when the payload has none
jwtSign(payload, secret, time) ==
  LET p == payload @@ [iat |-> time]
  IN  [parts |-> 3, payload |-> p, signed |-> p, key |-> secret]

\* verify(token, secret) throws on a string that is not three parts
jwtVerifyThrows(token) == token.parts # 3

\* a verification that does not look at the signature
jwtVerifyUnsigned(token, secret, time) ==
  IF token.payload.t # "object" THEN FALSE
  ELSE ~("exp" \in DOMAIN token.payload /\ token.payload.exp <= time)

\* verify(token, secret), when it does not throw: false on an undecodable
\* payload, on exp <= now and on a signature that does not match
jwtVerify(token, secret, time) ==
  IF token.payload.t # "object" THEN FALSE
  ELSE IF "exp" \in DOMAIN token.payload /\ token.payload.exp <= time THEN FALSE
  ELSE token.key = secret /\ token.signed = token.payload

\* decode(token).payload
jwtDecodePayload(token) == token.payload

(***************************************************************************)
(* The Authorization header: absent, another scheme, or 'Bearer ' + token. *)
(***************************************************************************)
NoHeader      == [scheme |-> "", token |-> Null]
Basic(tok)    == [scheme |-> "Basic ", token |-> tok]
Bearer(tok)   == [scheme |-> "Bearer ", token |-> tok]

\* a check that takes any header that carries a token
startsWithAnyScheme(hdr) == hdr.scheme # ""

startsWithBearer(hdr) == hdr.scheme = "Bearer "

\* verifyToken of part_008 throws when jwt.verify does
verifyTokenThrows(hdr) == startsWithBearer(hdr) /\ jwtVerifyThrows(hdr.token)

\* verifyToken of part_008: null or the payload of the token
verifyToken(hdr, secret, time) ==
  IF ~startsWithBearer(hdr) THEN Null
  ELSE IF ~jwtVerify(hdr.token, secret, time) THEN Null
  ELSE OrElse(jwtDecodePayload(hdr.token), Null)

(***************************************************************************)
(* The store: the users and transactions tables of the D1 database.        *)
(***************************************************************************)
VARIABLES
  router,   \* which of the two routers is deployed: "part_008" or "worker"
  users,    \* rows of users, in insertion order
  txs,      \* rows of transactions, in insertion order
  now,      \* the clock, in seconds: Math.floor(Date.now() / 1000)
  issued,   \* the tokens the login handler has returned
  pend,     \* per request slot, a signup suspended between SELECT and INSERT
  last,     \* the request completed last, and its response
  signedUp, \* history: the (email, password) of every signup answered 201
  walk      \* history: the pages one client has fetched one after another

vars == <<router, users, txs, now, issued, pend, last, signedUp, walk>>

Routers == {"part_008", "worker"}
Slots   == 1..MaxInflight

\* SELECT ... FROM users WHERE email = ? (.first())
SelectUser(email) ==
  LET hits == {i \in 1..Len(users) : users[i].email = email}
  IN  IF hits = {} THEN Null
      ELSE users[CHOOSE i \in hits : \A k \in hits : i <= k]

\* the column without its UNIQUE constraint
NotUniqueEmail(email) == TRUE

\* email TEXT UNIQUE NOT NULL
UniqueEmail(email) == \A i \in 1..Len(users) : users[i].email # email

\* id INTEGER PRIMARY KEY AUTOINCREMENT; rows are never deleted
NextUserId == Len(users) + 1
NextTxId   == Len(txs) + 1

\* D1 refuses to bind undefined (D1_TYPE_ERROR)
BindThrows(params) == \E i \in 1..Len(params) : params[i].t = "undefined"

Idle == [pc |-> "idle"]

NoRequest == [route |-> "none"]

\* no page has been fetched since the last insert into transactions
NoWalk == [uid |-> 0, k |-> 0, pages |-> <<>>]

\* the response of createJsonResponse / new Response
Response(route, hdr, input, status, body, decoded, db) ==
  [route |-> route, hdr |-> hdr, input |-> input, at |-> now,
   status |-> status, body |-> body, decoded |-> decoded, db |-> db]

\* an exception that leaves fetch: the runtime answers 500
Uncaught(route, hdr, input, decoded, db) ==
  Response(route, hdr, input, 500, [exception |-> TRUE], decoded, db)

\* the model watches one response at a time: a request is taken up once the
\* response before it has been returned
Ready == last = NoRequest

\* return createJsonResponse(...): the response leaves the worker
Return ==
  /\ last # NoRequest
  /\ last' = NoRequest
  /\ UNCHANGED <<walk, signedUp, router, users, txs, now, issued, pend>>

Init ==
  /\ router \in Routers
  /\ users = <<>>
  /\ txs = <<>>
  /\ now = 0
  /\ issued = {}
  /\ pend = [p \in Slots |-> Idle]
  /\ last = NoRequest
  /\ signedUp = {}
  /\ walk = NoWalk

(***************************************************************************)
(* parseJSON: req.json() throws on a body that is not JSON, and the catch  *)
(* turns the exception into null.  A body that is JSON is modelled by the  *)
(* value it parses to.                                                     *)
(***************************************************************************)
NotJSON == [t |-> "text"]

\* the exception of req.json() as it would leave a parseJSON without catch
Thrown == [t |-> "thrown"]

\* return await req.json(), with no try around it
parseJSONNoCatch(body) == IF body = NotJSON THEN Thrown ELSE body

parseJSON(body) == IF body = NotJSON THEN Null ELSE body

(***************************************************************************)
(* POST /api/auth/signup                                                   *)
(***************************************************************************)
\* the validation of signup and login, per router
CredentialsRejected(data) ==
  IF router = "part_008"
  THEN data = Null \/ ~validateEmail(data.email) \/ ~validatePassword(data.password)
  ELSE data = Null \/ ~Truthy(data.email) \/ ~Truthy(data.password)

CredentialsError ==
  IF router = "part_008" THEN [error |-> "Invalid email or password"]
  ELSE [error |-> "Missing email or password"]

\* a write that stores the row twice
InsertUserTwice(email, hashedPassword) ==
  users' = users \o <<[id |-> NextUserId, email |-> email, password |-> hashedPassword],
                      [id |-> NextUserId + 1, email |-> email, password |-> hashedPassword]>>

\* INSERT INTO users (email, password) VALUES (?, ?)
InsertUser(email, hashedPassword) ==
  users' = Append(users, [id |-> NextUserId, email |-> email,
                          password |-> hashedPassword])

\* from the request to the await of the existence SELECT
SignupSelect(p, body) ==
  /\ Ready
  /\ pend[p] = Idle
  /\ LET data == parseJSON(body)
     IN  IF data = Thrown
         THEN /\ last' = Uncaught("signup", NoHeader, data, Null, {})
              /\ pend' = pend
         ELSE IF CredentialsRejected(data)
         THEN /\ last' = Response("signup", NoHeader, data, 400, CredentialsError,
                                  Null, {})
              /\ pend' = pend
         ELSE IF SelectUser(data.email.s) # Null
         THEN /\ last' = Response("signup", NoHeader, data, 409,
                                  [error |-> "Email already registered"], Null,
                                  {"users.select"})
              /\ pend' = pend
         ELSE /\ pend' = [pend EXCEPT ![p] = [pc |-> "insert", data |-> data]]
              /\ last' = last
  /\ UNCHANGED <<walk, signedUp, router, users, txs, now, issued>>

\* bcrypt.hash and the INSERT; the UNIQUE constraint makes run() throw
SignupInsert(p, salt) ==
  /\ Ready
  /\ pend[p] # Idle
  /\ LET data == pend[p].data
         hashedPassword == bcryptHash(data.password.s, salt)
     IN  IF UniqueEmail(data.email.s)
         THEN /\ InsertUser(data.email.s, hashedPassword)
              /\ last' = Response("signup", NoHeader, data, 201,
                                  [message |-> "User created"], Null,
                                  {"users.select", "users.insert"})
              /\ signedUp' = signedUp \cup {[email |-> data.email.s,
                                              password |-> data.password.s]}
         ELSE /\ users' = users
              /\ last' = Uncaught("signup", NoHeader, data, Null,
                                  {"users.select", "users.insert"})
              /\ signedUp' = signedUp
  /\ pend' = [pend EXCEPT ![p] = Idle]
  /\ UNCHANGED <<walk, router, txs, now, issued>>

(***************************************************************************)
(* POST /api/auth/login                                                    *)
(***************************************************************************)
\* the payload given to jwt.sign: part_008 sets exp itself, the worker
\* passes { expiresIn: '7d' } as the options, which the library ignores
LoginPayload(user) ==
  IF router = "part_008"
  THEN Claims(user.id, user.email) @@ [exp |-> now + TTL]
  ELSE Claims(user.id, user.email)

\* a signing key that is not the one verification uses
SigningKeyOther == OtherSecret

\* the secret given to jwt.sign
SigningKey == IF router = "part_008" THEN JWT_SECRET ELSE WorkerSecret

\* a message of its own for the unknown email
NoSuchUserTold == [error |-> "User not found"]

\* if (!user) return ...
NoSuchUser == [error |-> "Invalid credentials"]

\* if (!validPassword) return ...
WrongPassword == [error |-> "Invalid credentials"]

Login(body) ==
  /\ Ready
  /\ LET data == parseJSON(body)
     IN  IF data = Thrown
         THEN /\ last' = Uncaught("login", NoHeader, data, Null, {})
              /\ issued' = issued
         ELSE IF CredentialsRejected(data)
         THEN /\ last' = Response("login", NoHeader, data, 400, CredentialsError,
                                  Null, {})
              /\ issued' = issued
         ELSE LET user == SelectUser(data.email.s)
              IN  IF user = Null
                  THEN /\ last' = Response("login", NoHeader, data, 401,
                                           NoSuchUser, Null, {"users.select"})
                       /\ issued' = issued
                  ELSE IF ~bcryptCompare(data.password.s, user.password)
                  THEN /\ last' = Response("login", NoHeader, data, 401,
                                           WrongPassword, Null, {"users.select"})
                       /\ issued' = issued
                  ELSE LET token == jwtSign(LoginPayload(user), SigningKey, now)
                       IN  /\ Cardinality(issued \cup {token}) <= MaxTokens
                           /\ last' = Response("login", NoHeader, data, 200,
                                               [token |-> token], Null,
                                               {"users.select"})
                           /\ issued' = issued \cup {token}
  /\ UNCHANGED <<walk, signedUp, router, users, txs, now, pend>>

(***************************************************************************)
(* The authentication step in front of every route but signup and login.   *)
(***************************************************************************)
Secret == IF router = "part_008" THEN JWT_SECRET ELSE WorkerSecret

Unauthorized == [error |-> "Unauthorized"]

\* out = "throw": an exception leaves fetch; "reject": the early return;
\* "pass": execution goes on to the routes, with decoded
Gate(hdr) ==
  IF router = "part_008"
  THEN IF verifyTokenThrows(hdr)
       THEN [out |-> "throw", decoded |-> Null]
       ELSE LET decoded == verifyToken(hdr, Secret, now)
            IN  IF ~Truthy(decoded)
                THEN [out |-> "reject", status |-> 401, body |-> Unauthorized,
                      decoded |-> Null]
                ELSE [out |-> "pass", decoded |-> decoded]
  ELSE IF ~startsWithBearer(hdr)
       THEN [out |-> "reject", status |-> 401, body |-> Unauthorized,
             decoded |-> Null]
       ELSE IF jwtVerifyThrows(hdr.token)
       THEN [out |-> "reject", status |-> 403, body |-> [error |-> "Invalid token"],
             decoded |-> Null]
       ELSE [out |-> "pass", decoded |-> Bool(jwtVerify(hdr.token, Secret, now))]

\* decoded.id
DecodedId(decoded) ==
  IF decoded.t = "object" /\ "id" \in DOMAIN decoded THEN Num(decoded.id) ELSE Undef

\* the response of a request the authentication step ends
Gated(route, hdr, input, g) ==
  IF g.out = "throw" THEN Uncaught(route, hdr, input, Null, {})
  ELSE Response(route, hdr, input, g.status, g.body, Null, {})

(***************************************************************************)
(* GET /api/metrics                                                        *)
(***************************************************************************)
\* metrics summed over the ledger
MetricsOfLedger ==
  [totalRevenue |-> 100000 + Len(txs), monthlyGrowth |-> "10.5", cashFlow |-> 50000]

MetricsBody == [totalRevenue |-> 100000, monthlyGrowth |-> "10.5", cashFlow |-> 50000]

Metrics(hdr) ==
  /\ Ready
  /\ LET g == Gate(hdr)
     IN  last' = IF g.out # "pass" THEN Gated("metrics", hdr, Null, g)
                 ELSE Response("metrics", hdr, Null, 200, MetricsBody, g.decoded, {})
  /\ UNCHANGED <<walk, signedUp, router, users, txs, now, issued, pend>>

(***************************************************************************)
(* parseInt(s, 10) and Math.min                                            *)
(***************************************************************************)
DigitChars == <<"0", "1", "2", "3", "4", "5", "6", "7", "8", "9">>

IsDigit(c) == \E i \in 1..10 : DigitChars[i] = c

DigitVal(c) == (CHOOSE i \in 1..10 : DigitChars[i] = c) - 1

RECURSIVE DigitsValue(_, _, _)
DigitsValue(s, lo, hi) ==
  IF hi < lo THEN 0 ELSE 10 * DigitsValue(s, lo, hi - 1) + DigitVal(s[hi])

parseInt(s) ==
  LET n     == Len(s)
      blank == {i \in 1..n : \A k \in 1..i : s[k] \in Whitespace}
      start == Cardinality(blank) + 1
      signed == start <= n /\ s[start] \in {"-", "+"}
      d0    == IF signed THEN start + 1 ELSE start
      run   == {i \in d0..n : \A k \in d0..i : IsDigit(s[k])}
      dEnd  == d0 + Cardinality(run) - 1
      mag   == DigitsValue(s, d0, dEnd)
  IN  IF run = {} THEN NaN
      ELSE Num(IF signed /\ s[start] = "-" THEN 0 - mag ELSE mag)

MathMin(a, b) ==
  IF IsNaN(a) \/ IsNaN(b) THEN NaN ELSE Num(IF a.n <= b.n THEN a.n ELSE b.n)

DefaultLimit == <<"5", "0">>
DefaultOffset == <<"0">>
LimitCeiling == 100

(***************************************************************************)
(* Dates and types are TEXT; SQLite compares TEXT byte by byte.  The       *)
(* strings of the model, in that order:                                    *)
(***************************************************************************)
TextOrder == <<"", " ", "2025-09-01", "2025-09-03", "expense", "income", "soon">>

TextRank(s) == CHOOSE i \in 1..Len(TextOrder) : TextOrder[i] = s

\* a comparison that leaves out equal strings
TextLess(a, b) == TextRank(a) < TextRank(b)

\* a <= b, as date >= ? and date <= ? compare
TextLeq(a, b) == TextRank(a) <= TextRank(b)

\* s.trim()
Trim(s) == IF s = " " THEN "" ELSE s

(***************************************************************************)
(* GET /api/transactions                                                   *)
(***************************************************************************)
\* the WHERE clause without "user_id = ?"
MatchingAllUsers(uid, startDate, endDate) ==
  {i \in 1..Len(txs) :
     /\ Truthy(startDate) => TextLeq(startDate.s, txs[i].date)
     /\ Truthy(endDate) => TextLeq(txs[i].date, endDate.s)}

\* the rows the WHERE clause of part_008 keeps, as indices into txs
Matching(uid, startDate, endDate) ==
  {i \in 1..Len(txs) :
     /\ txs[i].user_id = uid
     /\ Truthy(startDate) => TextLeq(startDate.s, txs[i].date)
     /\ Truthy(endDate) => TextLeq(txs[i].date, endDate.s)}

\* ORDER BY date DESC: every order of the rows with dates descending; the
\* order of rows with equal dates is not specified
Ordered(rows) ==
  {f \in [1..Cardinality(rows) -> rows] :
     /\ \A i, j \in 1..Cardinality(rows) : i # j => f[i] # f[j]
     /\ \A i, j \in 1..Cardinality(rows) :
          i < j => TextLeq(txs[f[j]].date, txs[f[i]].date)}

\* LIMIT ? OFFSET ?: a negative limit is no limit, a negative offset is 0
Page(f, limit, offset) ==
  LET off == IF offset < 0 THEN 0 ELSE offset
      lim == IF limit < 0 THEN Len(f) ELSE limit
      hi  == IF off + lim < Len(f) THEN off + lim ELSE Len(f)
  IN  [i \in 1..(IF hi > off THEN hi - off ELSE 0) |-> txs[f[off + i]]]

\* the walk after the response resp of part_008: a request without date
\* filters that names offset 0 begins a walk with its limit as the page
\* size; a request of the same user with the same limit and the offset that
\* follows the pages fetched so far adds its page
Walked(resp) ==
  LET q   == resp.input
      k   == resp.body.pagination.limit
      off == resp.body.pagination.offset
      uid == resp.decoded.id
  IN  IF Truthy(q.startDate) \/ Truthy(q.endDate) \/ ~Truthy(q.offset) \/ k < 1
      THEN walk
      ELSE IF off = 0
      THEN [uid |-> uid, k |-> k, pages |-> <<resp.body.transactions>>]
      ELSE IF walk.uid = uid /\ walk.k = k /\ off = Len(walk.pages) * k
      THEN [walk EXCEPT !.pages = Append(@, resp.body.transactions)]
      ELSE walk

ListTransactions(hdr, q) ==
  /\ Ready
  /\ LET g == Gate(hdr)
     IN  IF g.out # "pass" THEN last' = Gated("list", hdr, q, g)
         ELSE IF router = "part_008"
         THEN LET limit  == MathMin(parseInt(OrElse(q.limit, Str(DefaultLimit)).s),
                                    Num(LimitCeiling))
                  offset == parseInt(OrElse(q.offset, Str(DefaultOffset)).s)
              IN  IF IsNaN(limit) \/ IsNaN(offset)
                  THEN last' = Uncaught("list", hdr, q, g.decoded, {"transactions.select"})
                  ELSE \E f \in Ordered(Matching(g.decoded.id, q.startDate, q.endDate)) :
                         LET results == Page(f, limit.n, offset.n)
                         IN  last' = Response("list", hdr, q, 200,
                                       [transactions |-> results,
                                        pagination |-> [limit |-> limit.n,
                                                        offset |-> offset.n,
                                                        count |-> Len(results)]],
                                       g.decoded, {"transactions.select"})
         ELSE IF BindThrows(<<DecodedId(g.decoded)>>)
              THEN last' = Uncaught("list", hdr, q, g.decoded, {})
              ELSE \E f \in Ordered(Matching(DecodedId(g.decoded).n, Null, Null)) :
                     last' = Response("list", hdr, q, 200,
                                      [transactions |-> Page(f, 0 - 1, 0)],
                                      g.decoded, {"transactions.select"})
  /\ walk' = IF last'.status = 200 /\ "pagination" \in DOMAIN last'.body
             THEN Walked(last') ELSE walk
  /\ UNCHANGED <<signedUp, router, users, txs, now, issued, pend>>

(***************************************************************************)
(* POST /api/transactions                                                  *)
(***************************************************************************)
validateTransaction(data) ==
  /\ data # Null
  /\ IsStr(data.date) /\ Trim(data.date.s) # ""
  /\ IsNum(data.amount)
  /\ IsStr(data.type) /\ Trim(data.type.s) # ""

\* a write that is acknowledged and not stored
DropTransaction(uid, date, description, category, amount, type) == txs' = txs

\* a write that keeps only the new row
ReplaceTransaction(uid, date, description, category, amount, type) ==
  txs' = <<[id |-> NextTxId, user_id |-> uid, date |-> date,
            description |-> description, category |-> category,
            amount |-> amount, type |-> type]>>

\* INSERT INTO transactions (user_id, date, description, category, amount, type)
InsertTransaction(uid, date, description, category, amount, type) ==
  txs' = Append(txs, [id |-> NextTxId, user_id |-> uid, date |-> date,
                      description |-> description, category |-> category,
                      amount |-> amount, type |-> type])

\* the owner taken from the request body when it names one
OwnerFromBody(decoded, data) ==
  IF IsNum(data.user_id) THEN data.user_id.n ELSE decoded.id

\* the user_id bound to the INSERT of part_008: decoded.id
Owner(decoded, data) == decoded.id

CreateTransaction(hdr, body) ==
  /\ Ready
  /\ LET g == Gate(hdr)
         data == parseJSON(body)
     IN  IF g.out # "pass"
         THEN last' = Gated("create", hdr, data, g) /\ txs' = txs
         ELSE IF data = Thrown
         THEN last' = Uncaught("create", hdr, data, g.decoded, {}) /\ txs' = txs
         ELSE IF router = "part_008"
         THEN IF ~validateTransaction(data)
              THEN /\ last' = Response("create", hdr, data, 400,
                                       [error |-> "Invalid transaction data"],
                                       g.decoded, {})
                   /\ txs' = txs
              ELSE /\ InsertTransaction(Owner(g.decoded, data), data.date.s,
                                        OrElse(data.description, Null),
                                        OrElse(data.category, Null),
                                        data.amount.n, data.type.s)
                   /\ last' = Response("create", hdr, data, 201,
                                       [message |-> "Transaction added"],
                                       g.decoded, {"transactions.insert"})
         ELSE IF data = Null
              THEN /\ last' = Response("create", hdr, data, 400,
                                       [error |-> "Invalid input"], g.decoded, {})
                   /\ txs' = txs
              ELSE IF ~Truthy(data.date) \/ ~Truthy(data.amount) \/ ~Truthy(data.type)
              THEN /\ last' = Response("create", hdr, data, 400,
                                       [error |-> "Missing required fields"],
                                       g.decoded, {})
                   /\ txs' = txs
              ELSE IF BindThrows(<<DecodedId(g.decoded), data.date, data.description,
                                   data.category, data.amount, data.type>>)
              THEN /\ last' = Uncaught("create", hdr, data, g.decoded, {})
                   /\ txs' = txs
              ELSE /\ InsertTransaction(DecodedId(g.decoded).n, data.date.s,
                                        data.description, data.category,
                                        data.amount.n, data.type.s)
                   /\ last' = Response("create", hdr, data, 201,
                                       [message |-> "Transaction added"],
                                       g.decoded, {"transactions.insert"})
  /\ walk' = IF txs' # txs THEN NoWalk ELSE walk
  /\ UNCHANGED <<signedUp, router, users, now, issued, pend>>

(***************************************************************************)
(* Any other method and path                                               *)
(***************************************************************************)
RouteTable ==
  { [method |-> "POST", path |-> "/api/auth/signup"],
    [method |-> "POST", path |-> "/api/auth/login"],
    [method |-> "GET",  path |-> "/api/metrics"],
    [method |-> "GET",  path |-> "/api/transactions"],
    [method |-> "POST", path |-> "/api/transactions"] }

NotFound(hdr, req) ==
  /\ Ready
  /\ req \notin RouteTable
  /\ LET g == Gate(hdr)
     IN  last' = IF g.out # "pass" THEN Gated("other", hdr, req, g)
                 ELSE Response("other", hdr, req, 404, [error |-> "Not found"],
                               g.decoded, {})
  /\ UNCHANGED <<walk, signedUp, router, users, txs, now, issued, pend>>

(***************************************************************************)
(* The clock.  The instants of the model are the seconds at which a token  *)
(* may be issued and the seconds at which such a token expires.            *)
(***************************************************************************)
Instants == (0..MaxIssue) \cup {TTL + k : k \in 0..MaxIssue}

Tick ==
  /\ Ready
  /\ \E t \in Instants : t > now /\ now' = t
  /\ UNCHANGED <<walk, signedUp, router, users, txs, issued, pend, last>>

(***************************************************************************)
(* The requests of the model.                                              *)
(***************************************************************************)
Creds(email, password) == [email |-> email, password |-> password]

ValidCreds ==
  {Creds(Str(e), Str(pw)) : e \in {EmailA, EmailB}, pw \in {"secret1", "secret2"}}

AuthBodies ==
  ValidCreds \cup
  { NotJSON,
    Creds(Str(EmailBad), Str("secret1")),
    Creds(Str(EmailA), Str("abc")),
    Creds(Undef, Str("secret1")),
    Creds(Str(EmailA), Undef) }

\* 'garbage': not three parts;  'a.b.c': three parts that decode to nothing
Junk  == [parts |-> 1, payload |-> Undef, signed |-> Undef, key |-> ""]
Junk3 == [parts |-> 3, payload |-> Undef, signed |-> Undef, key |-> ""]

\* what a client without the secret can make of the tokens it has seen:
\* the same claims under its own key, and another id under the old signature
Forged ==
  {Junk, Junk3}
  \cup {[tk EXCEPT !.key = OtherSecret] : tk \in issued}
  \cup {[tk EXCEPT !.payload = [tk.payload EXCEPT !.id = (tk.payload.id % 2) + 1]] :
          tk \in issued}
  \cup {jwtSign(Claims(1, EmailA), OtherSecret, now)}

AllHeaders ==
  {NoHeader} \cup {Basic(tk) : tk \in issued} \cup {Bearer(tk) : tk \in issued \cup Forged}

OwnHeaders == {NoHeader} \cup {Bearer(tk) : tk \in issued \cup {Junk3}}

Query(limit, offset, startDate, endDate) ==
  [limit |-> limit, offset |-> offset, startDate |-> startDate, endDate |-> endDate]

NoQuery == Query(Null, Null, Null, Null)

Queries ==
  {Query(l, o, sd, ed) :
     l  \in {Null, Str(<<"1">>), Str(<<"-", "1">>), Str(<<"a">>)},
     o  \in {Null, Str(<<"1">>), Str(<<"-", "1">>)},
     sd \in {Null, Str("2025-09-03")},
     ed \in {Null, Str("2025-09-01")}}

\* the date filters alone, with the default limit and offset
DateQueries ==
  {Query(Null, Null, sd, ed) :
     sd \in {Null, Str("2025-09-01"), Str("2025-09-03")},
     ed \in {Null, Str("2025-09-01"), Str("2025-09-03")}}

TxBody(date, amount, type, description, user_id) ==
  [date |-> date, amount |-> amount, type |-> type, description |-> description,
   category |-> Undef, user_id |-> user_id]

Income == TxBody(Str("2025-09-01"), Num(1200), Str("income"), Undef, Undef)

\* a body that names another user as its owner
Expense == TxBody(Str("2025-09-03"), Num(0 - 150), Str("expense"), Str("Office"), Num(1))

TxBodies ==
  { NotJSON, Income, Expense,
    TxBody(Str(" "), Num(5), Str("income"), Undef, Undef),
    TxBody(Str("2025-09-01"), Str("12"), Str("income"), Undef, Undef),
    TxBody(Str("2025-09-01"), Num(0), Str("income"), Undef, Num(2)),
    TxBody(Str("2025-09-01"), Num(7), Undef, Undef, Undef) }

OtherRequests ==
  { [method |-> "GET", path |-> "/api/auth/login"],
    [method |-> "DELETE", path |-> "/api/transactions"],
    [method |-> "GET", path |-> "/"] }

\* one account per email, as the ledger requests need them
OwnCreds == {Creds(Str(EmailA), Str("secret1")), Creds(Str(EmailB), Str("secret2"))}

(***************************************************************************)
(* Spec: the whole API within one second, signups one at a time.           *)
(***************************************************************************)
Next ==
  \/ \E d \in OwnCreds \cup {NotJSON} : SignupSelect(1, d)
  \/ \E s \in Salts : SignupInsert(1, s)
  \/ \E d \in OwnCreds \cup {NotJSON} : Login(d)
  \/ \E h \in OwnHeaders : Metrics(h)
  \/ \E h \in OwnHeaders : \E q \in Queries \cup DateQueries : ListTransactions(h, q)
  \/ \E h \in OwnHeaders : \E b \in TxBodies :
       Len(txs) < MaxTxs /\ CreateTransaction(h, b)
  \/ \E h \in OwnHeaders : \E r \in OtherRequests : NotFound(h, r)
  \/ Return

Spec == Init /\ [][Next]_vars

(***************************************************************************)
(* SpecAuth: the clock moves and clients present every token they can      *)
(* make; the ledger holds at most one row.                                 *)
(***************************************************************************)
NextAuth ==
  \/ \E d \in OwnCreds : SignupSelect(1, d)
  \/ \E s \in Salts : SignupInsert(1, s)
  \/ \E d \in OwnCreds \cup {Creds(Str(EmailA), Str("secret2"))} : Login(d)
  \/ \E h \in AllHeaders : Metrics(h)
  \/ \E h \in AllHeaders : ListTransactions(h, NoQuery)
  \/ \E h \in AllHeaders : Len(txs) < 1 /\ CreateTransaction(h, Income)
  \/ \E h \in AllHeaders : NotFound(h, [method |-> "GET", path |-> "/"])
  \/ Tick
  \/ Return

SpecAuth == Init /\ [][NextAuth]_vars

(***************************************************************************)
(* SpecRace: signup requests overlap.                                      *)
(***************************************************************************)
NextRace ==
  \/ \E p \in Slots : \E d \in AuthBodies : SignupSelect(p, d)
  \/ \E p \in Slots : \E s \in Salts : SignupInsert(p, s)
  \/ \E d \in AuthBodies : Login(d)
  \/ Return

SpecRace == Init /\ [][NextRace]_vars

(***************************************************************************)
(* SpecPages: one user fills the ledger, with every kind of body, and       *)
(* fetches it page by page.                                                *)
(***************************************************************************)
\* a second transaction on the date of Income
IncomeAgain == TxBody(Str("2025-09-01"), Num(300), Str("income"), Undef, Undef)

\* a date that is no date, and a type that is neither income nor expense
NoDate == TxBody(Str("soon"), Num(5), Str("income"), Undef, Undef)
NoType == TxBody(Str("2025-09-03"), Num(5), Str("soon"), Undef, Undef)

\* an amount of exactly 0, and an income with a negative amount
ZeroAmount == TxBody(Str("2025-09-03"), Num(0), Str("expense"), Undef, Undef)
Refund     == TxBody(Str("2025-09-01"), Num(0 - 40), Str("income"), Undef, Undef)

PageBodies ==
  { Income, IncomeAgain, Expense, NoDate, NoType, ZeroAmount, Refund,
    TxBody(Str("2025-09-01"), Str("12"), Str("income"), Undef, Undef) }

\* ?limit=k&offset=o
PageQueries ==
  {Query(l, o, Null, Null) :
     l \in {Str(<<"1">>), Str(<<"2">>), Str(<<"0">>), Str(<<"1", "0", "1">>)},
     o \in {Null, Str(<<"0">>), Str(<<"1">>), Str(<<"2">>)}}

PageCreds == Creds(Str(EmailA), Str("secret1"))

NextPages ==
  \/ SignupSelect(1, PageCreds)
  \/ \E s \in Salts : SignupInsert(1, s)
  \/ Login(PageCreds)
  \/ \E tk \in issued : \E b \in PageBodies :
       Len(txs) < MaxTxs /\ CreateTransaction(Bearer(tk), b)
  \/ \E tk \in issued : \E q \in PageQueries : ListTransactions(Bearer(tk), q)
  \/ Return

SpecPages == Init /\ [][NextPages]_vars

(***************************************************************************)
(* SpecHash: signups and logins with passwords on both sides of the 72     *)
(* bytes that bcrypt reads, and more than one salt.                        *)
(***************************************************************************)
\* 72 bytes, and two passwords of 73 bytes that begin with them
KeyFull == "012345678901234567890123456789012345678901234567890123456789012345678901"
LongA   == KeyFull \o "a"
LongB   == KeyFull \o "b"

HashPasswords == {"secret1", "secret2", LongA, LongB}

HashCreds == {Creds(Str(e), Str(pw)) : e \in {EmailA, EmailB}, pw \in HashPasswords}

\* one salt more than the other specifications draw from
HashSalts == 1..(MaxSalt + 1)

NextHash ==
  \/ \E d \in HashCreds : SignupSelect(1, d)
  \/ \E s \in HashSalts : SignupInsert(1, s)
  \/ \E d \in HashCreds : Login(d)
  \/ Return

SpecHash == Init /\ [][NextHash]_vars

(***************************************************************************)
(* Properties.                                                             *)
(***************************************************************************)
ProtectedRoutes == {"metrics", "list", "create"}

\* the request answered last went through the authentication step
Guarded == last.route \in ProtectedRoutes \cup {"other"}

\* the token of the request answered last is one that login returned
OwnToken == startsWithBearer(last.hdr) /\ last.hdr.token \in issued

\* C1: every row of a 200 response to GET /api/transactions belongs to the
\* user named by the id claim of the token that made the request, whatever
\* the startDate, endDate, limit and offset parameters are.
C1_ListNeverCrossesUsers ==
  (last.route = "list" /\ last.status = 200) =>
    /\ OwnToken
    /\ \A i \in 1..Len(last.body.transactions) :
         last.body.transactions[i].user_id = last.hdr.token.payload.id

\* a filtered, paged list that returned a row while another user has rows
C1_Witness ==
  /\ last.route = "list" /\ last.status = 200
  /\ Len(last.body.transactions) >= 1
  /\ last.input.startDate # Null /\ last.input.offset # Null
  /\ \E i \in 1..Len(txs) : txs[i].user_id # last.hdr.token.payload.id

\* C2: the row written by a POST /api/transactions answered 201 has the
\* user_id of the id claim of the token that authenticated the request,
\* whatever the body contains.
C2_CreateOwnedByTokenUser ==
  (last.route = "create" /\ last.status = 201) =>
    /\ OwnToken
    /\ Len(txs) >= 1
    /\ txs[Len(txs)].user_id = last.hdr.token.payload.id

\* a create whose body names another user than the one of the token
C2_Witness ==
  /\ last.route = "create" /\ last.status = 201
  /\ IsNum(last.input.user_id)
  /\ last.input.user_id.n # last.hdr.token.payload.id
  /\ txs[Len(txs)].user_id = last.hdr.token.payload.id

\* C3: a request to a protected route without an Authorization header that
\* starts with 'Bearer ' is answered 401 and touches neither table.
C3_NoBearerIs401 ==
  (last.route \in ProtectedRoutes /\ last.hdr.scheme # "Bearer ") =>
    /\ last.status = 401
    /\ last.body = Unauthorized
    /\ last.db = {}

\* a create that carried a token login returned, under the Basic scheme
C3_Witness ==
  /\ last.route = "create"
  /\ last.hdr.scheme = "Basic " /\ last.hdr.token \in issued
  /\ last.status = 401
  /\ txs = <<>>

\* the token is not three parts, or its payload does not decode
Malformed(tk) == tk.parts # 3 \/ tk.payload.t # "object"

\* the signature is not the one the secret gives for the payload
BadSignature(tk, secret) == tk.key # secret \/ tk.signed # tk.payload

\* the expiry of the token is at or before the time
Expired(tk, time) ==
  /\ tk.payload.t = "object"
  /\ "exp" \in DOMAIN tk.payload
  /\ tk.payload.exp <= time

\* C4: in the part_008 router a Bearer token that is malformed, wrongly
\* signed or expired is answered 401 Unauthorized: never a 2xx, never a
\* route handler, never an exception that leaves fetch.
C4_BadTokenIs401 ==
  ( /\ router = "part_008"
    /\ Guarded
    /\ startsWithBearer(last.hdr)
    /\ \/ Malformed(last.hdr.token)
       \/ BadSignature(last.hdr.token, JWT_SECRET)
       \/ Expired(last.hdr.token, last.at) ) =>
    /\ last.status = 401
    /\ last.body = Unauthorized

\* C5: in the worker router a request goes past the authentication step
\* only when jwt.verify accepted its token; a token that verify throws on
\* or returns false for is answered 401 or 403 and nothing is read or
\* written.
C5_WorkerRejectsUnverified ==
  ( /\ router = "worker"
    /\ Guarded
    /\ startsWithBearer(last.hdr)
    /\ \/ jwtVerifyThrows(last.hdr.token)
       \/ ~jwtVerify(last.hdr.token, WorkerSecret, last.at) ) =>
    /\ last.status \in {401, 403}
    /\ last.db = {}

\* the credentials of the login answered last are those of a signup
\* answered 201
KnownCredentials ==
  /\ last.route = "login"
  /\ last.input # Null
  /\ IsStr(last.input.email) /\ IsStr(last.input.password)
  /\ [email |-> last.input.email.s, password |-> last.input.password.s] \in signedUp

\* C6: in part_008, a login with the credentials of a signup answered 201
\* is answered 200 with a token, and a token login returned, presented as
\* a Bearer token before its expiry, is accepted on every protected route.
C6_SignupLoginVerify ==
  router = "part_008" =>
    /\ KnownCredentials =>
         /\ last.status = 200
         /\ last.body.token \in issued
         /\ last.body.token.payload.email = last.input.email.s
    /\ (Guarded /\ OwnToken /\ last.at < last.hdr.token.payload.exp) =>
         /\ last.decoded = last.hdr.token.payload
         /\ last.status \in {200, 201, 400, 404}

\* a token issued at second 1 is accepted at the last second of its life
C6_Witness ==
  /\ router = "part_008"
  /\ last.route = "list" /\ last.status = 200
  /\ OwnToken
  /\ last.hdr.token.payload.iat = 1
  /\ last.at = TTL

\* the credentials of the login answered last passed the validation
ValidatedLogin == last.route = "login" /\ last.status # 400

\* no signup answered 201 had the email of the login answered last
UnknownEmail ==
  \A a \in signedUp : a.email # last.input.email.s

\* a signup answered 201 had the email, with another password
OtherPassword ==
  \E a \in signedUp : a.email = last.input.email.s /\ a.password # last.input.password.s

OneRowPerEmail ==
  \A i, j \in 1..Len(users) : users[i].email = users[j].email => i = j

\* C8: there is at most one user row per email; a signup answered 409 has
\* written nothing, and of two signups for one email that both passed the
\* existence check at most one adds a row.
C8_OneUserPerEmail ==
  /\ OneRowPerEmail
  /\ Cardinality({a.email : a \in signedUp}) = Cardinality(signedUp)
  /\ Len(users) = Cardinality(signedUp)
  /\ (last.route = "signup" /\ last.status = 409) =>
       /\ "users.insert" \notin last.db
       /\ \E i \in 1..Len(users) : users[i].email = last.input.email.s

\* the second of two overlapping signups for one email has run its INSERT
C8_Witness ==
  /\ last.route = "signup"
  /\ "users.insert" \in last.db
  /\ last.status # 201
  /\ Cardinality({i \in 1..Len(users) : users[i].email = last.input.email.s}) = 1

\* C9: the signup whose INSERT violates UNIQUE(email) is answered 409; the
\* failure of the store never leaves the handler as an exception or a 500.
C9_RaceLoserIs409 ==
  (last.route = "signup" /\ last.status # 201 /\ "users.insert" \in last.db) =>
    /\ last.status = 409
    /\ last.body = [error |-> "Email already registered"]

\* C10: a token login returned at second T carries exp = T + 604800, is
\* accepted at every second before T + 604800 and rejected at every second
\* from T + 604800 on.
C10_TokenLivesSevenDays ==
  /\ \A tk \in issued :
       "exp" \in DOMAIN tk.payload /\ tk.payload.exp = tk.payload.iat + TTL
  /\ (Guarded /\ OwnToken) =>
       IF last.at < last.hdr.token.payload.iat + TTL
       THEN last.status \notin {401, 403}
       ELSE last.status \in {401, 403}

\* C11: a request whose method and path are none of the five routes is
\* answered 404 with the not-found body, with or without an Authorization
\* header.
C11_UnmatchedIs404 ==
  last.route = "other" =>
    /\ last.input \notin RouteTable
    /\ last.status = 404
    /\ last.body = [error |-> "Not found"]

\* a string local@domain.tld: no whitespace, one "@", and after it a "."
\* with something on both sides
WellFormedEmail(v) ==
  /\ IsStr(v)
  /\ \A k \in 1..Len(v.s) : v.s[k] # " "
  /\ Cardinality({k \in 1..Len(v.s) : v.s[k] = "@"}) = 1
  /\ \E i, j \in 1..Len(v.s) :
       v.s[i] = "@" /\ v.s[j] = "." /\ 1 < i /\ i + 1 < j /\ j < Len(v.s)

\* a body that is missing, or whose email or password is not acceptable
InvalidCredentials(data) ==
  \/ data = Null
  \/ ~WellFormedEmail(data.email)
  \/ ~(IsStr(data.password) /\ Len(data.password.s) >= 6)

\* C12: a signup or login whose body is missing, whose email is not a
\* string local@domain.tld without whitespace, or whose password is not a
\* string of at least 6 characters is answered 400, and the users table is
\* neither read nor written for it.
C12_InvalidCredentialsAre400 ==
  (last.route \in {"signup", "login"} /\ InvalidCredentials(last.input)) =>
    /\ last.status = 400
    /\ last.db = {}

\* the calendar dates among the strings of the model
CalendarDates == {"2025-09-01", "2025-09-03"}

\* the two kinds of transaction
TransactionTypes == {"income", "expense"}

\* a body whose date, amount or type is not acceptable
InvalidTransaction(data) ==
  \/ data = Null
  \/ ~(IsStr(data.date) /\ data.date.s \in CalendarDates)
  \/ ~(IsNum(data.amount) /\ ~IsNaN(data.amount))
  \/ ~(IsStr(data.type) /\ data.type.s \in TransactionTypes)

\* C13: in part_008 an authenticated POST /api/transactions whose date is
\* not a calendar date, whose amount is not a number or whose type is
\* neither income nor expense is answered 400 and adds no row; every row of
\* the transactions table has a calendar date and one of the two types.
C13_InvalidTransactionIs400 ==
  /\ ( /\ router = "part_008"
       /\ last.route = "create" /\ OwnToken
       /\ InvalidTransaction(last.input) ) =>
       /\ last.status = 400
       /\ "transactions.insert" \notin last.db
  /\ \A i \in 1..Len(txs) :
       txs[i].date \in CalendarDates /\ txs[i].type \in TransactionTypes

\* both date bounds are given and the start is after the end
InvertedRange(q) ==
  /\ Truthy(q.startDate) /\ Truthy(q.endDate)
  /\ TextRank(q.startDate.s) > TextRank(q.endDate.s)

\* C14: an authenticated GET /api/transactions with startDate > endDate is
\* answered 400; it is never answered 200.
C14_InvertedRangeIs400 ==
  (last.route = "list" /\ OwnToken /\ InvertedRange(last.input)) =>
    last.status = 400

\* the limit parameter of the request is a decimal number
NumericLimit(q) == Truthy(q.limit) /\ ~IsNaN(parseInt(q.limit.s))

\* C15: in part_008 an authenticated GET /api/transactions is not rejected
\* for its limit parameter, whatever it is; the limit applied is 50 when the
\* parameter is absent and min(requested, 100) when it is a number, and the
\* response holds at most 100 transactions.
C15_LimitClamped ==
  ( /\ router = "part_008"
    /\ last.route = "list" /\ OwnToken
    /\ ~Truthy(last.input.offset) ) =>
    /\ last.status = 200
    /\ Len(last.body.transactions) <= 100
    /\ ~Truthy(last.input.limit) => last.body.pagination.limit = 50
    /\ NumericLimit(last.input) =>
         last.body.pagination.limit =
           (IF parseInt(last.input.limit.s).n <= 100
            THEN parseInt(last.input.limit.s).n ELSE 100)

\* the offset parameter of the request is a number below zero
NegativeOffset(q) ==
  /\ Truthy(q.offset)
  /\ ~IsNaN(parseInt(q.offset.s))
  /\ parseInt(q.offset.s).n < 0

\* C16: in part_008 an authenticated GET /api/transactions without an
\* offset parameter is executed with offset 0, and one with a negative
\* offset is answered 400 and not executed.
C16_NegativeOffsetIs400 ==
  ( /\ router = "part_008"
    /\ last.route = "list" /\ OwnToken
    /\ ~Truthy(last.input.limit) ) =>
    /\ ~Truthy(last.input.offset) =>
         last.status = 200 /\ last.body.pagination.offset = 0
    /\ NegativeOffset(last.input) =>
         last.status = 400 /\ "transactions.select" \notin last.db

\* row a comes before row b: a later date, or the same date and inserted
\* later (ids grow with the insertions)
Before(a, b) ==
  \/ TextRank(a.date) > TextRank(b.date)
  \/ a.date = b.date /\ a.id > b.id

\* C17: the transactions of every list response are in one total order:
\* date descending, and for one date the row inserted last first, so that
\* the same request on the same ledger always gives the same sequence.
C17_ListOrderIsTotal ==
  (last.route = "list" /\ last.status = 200) =>
    \A i, j \in 1..Len(last.body.transactions) :
      i < j => Before(last.body.transactions[i], last.body.transactions[j])

\* C20: in every 200 response of GET /api/transactions, pagination.count is
\* the number of transactions returned, pagination.limit and
\* pagination.offset are the numbers given to the query, and count <= limit.
C20_PaginationEcho ==
  (last.route = "list" /\ last.status = 200) =>
    /\ "pagination" \in DOMAIN last.body
    /\ last.body.pagination.count = Len(last.body.transactions)
    /\ last.body.pagination.limit =
         MathMin(parseInt(OrElse(last.input.limit, Str(DefaultLimit)).s),
                 Num(LimitCeiling)).n
    /\ last.body.pagination.offset =
         parseInt(OrElse(last.input.offset, Str(DefaultOffset)).s).n
    /\ last.body.pagination.count <= last.body.pagination.limit

\* the ids of the rows of the user of the token whose date is within the
\* bounds the request gives, the bounds included
WithinBounds(q, uid) ==
  {txs[i].id : i \in
     {k \in 1..Len(txs) :
        /\ txs[k].user_id = uid
        /\ Truthy(q.startDate) => TextRank(q.startDate.s) <= TextRank(txs[k].date)
        /\ Truthy(q.endDate) => TextRank(txs[k].date) <= TextRank(q.endDate.s)}}

\* the ids of the rows of a response
ReturnedIds(body) == {body.transactions[i].id : i \in 1..Len(body.transactions)}

\* the request answered last is a list with the default limit and offset
UnpagedList ==
  /\ last.route = "list" /\ last.status = 200
  /\ ~Truthy(last.input.limit) /\ ~Truthy(last.input.offset)

\* C19: a list request with startDate s and/or endDate e, the default limit
\* and offset 0 returns exactly the transactions of the user of the token
\* whose date d has s <= d and d <= e for the bounds given, those dated s or
\* e included, each once.
C19_DateFiltersInclusive ==
  UnpagedList =>
    /\ OwnToken
    /\ ReturnedIds(last.body) = WithinBounds(last.input, last.hdr.token.payload.id)
    /\ Cardinality(ReturnedIds(last.body)) = Len(last.body.transactions)

\* both bounds are the date of the one row returned, and the user has
\* another row outside them
C19_Witness ==
  /\ UnpagedList
  /\ Truthy(last.input.startDate) /\ Truthy(last.input.endDate)
  /\ Len(last.body.transactions) = 1
  /\ last.body.transactions[1].date = last.input.startDate.s
  /\ last.body.transactions[1].date = last.input.endDate.s
  /\ \E i \in 1..Len(txs) :
       /\ txs[i].user_id = last.hdr.token.payload.id
       /\ txs[i].id \notin ReturnedIds(last.body)

\* the rows of the pages of the walk, one page after the other
RECURSIVE Concat(_)
Concat(pages) ==
  IF pages = <<>> THEN <<>> ELSE Concat(SubSeq(pages, 1, Len(pages) - 1)) \o pages[Len(pages)]

\* the ids of the rows of the user of the walk
LedgerOf(uid) == {txs[i].id : i \in {k \in 1..Len(txs) : txs[k].user_id = uid}}

Kept(before, after) ==
  /\ Len(after) >= Len(before)
  /\ \A i \in 1..Len(before) : after[i] = before[i]

\* C21: both tables are append-only: a user row and a transaction row that
\* exist before a step exist unchanged after it; no request updates or
\* deletes a row.
C21_AppendOnly == [][Kept(users, users') /\ Kept(txs, txs')]_vars

\* a second transaction has been added and a second user has signed up
\* while the first rows were there
C21_Witness ==
  /\ last.route = "create" /\ last.status = 201
  /\ Len(txs) = 2 /\ Len(users) = 2
  /\ txs[1].user_id # txs[2].user_id

\* C22: in every state the user_id of every transaction row is the id of
\* one existing user row, whatever tokens the requests have presented.
C22_TransactionsHaveOwners ==
  \A i \in 1..Len(txs) :
    Cardinality({u \in 1..Len(users) : users[u].id = txs[i].user_id}) = 1

\* the second of two users has added a transaction after the clock moved
C22_Witness ==
  /\ last.route = "create" /\ last.status = 201
  /\ Len(users) = 2
  /\ txs[Len(txs)].user_id = 2
  /\ last.at > 0

\* the row a create request answered resp adds to a table of n rows
RowOf(resp, n) ==
  [id |-> n + 1,
   user_id |-> resp.hdr.token.payload.id,
   date |-> resp.input.date.s,
   description |-> OrElse(resp.input.description, Null),
   category |-> OrElse(resp.input.category, Null),
   amount |-> resp.input.amount.n,
   type |-> resp.input.type.s]

\* C23: a POST /api/transactions answered 201 has added exactly one row
\* with the fields of the request and the id of its user, a POST answered
\* otherwise has added none, and nothing else adds a row, whatever other
\* requests are in progress.
C23_InsertAllOrNothing ==
  [][ /\ (last' # last /\ last'.route = "create") =>
           IF last'.status = 201
           THEN startsWithBearer(last'.hdr) /\ last'.hdr.token \in issued
                /\ txs' = Append(txs, RowOf(last', Len(txs)))
           ELSE txs' = txs
      /\ txs' # txs => (last' # last /\ last'.route = "create" /\ last'.status = 201)
    ]_vars

\* a second row has been added while the signup of another user is
\* suspended between its SELECT and its INSERT
C23_Witness ==
  /\ last.route = "create" /\ last.status = 201
  /\ Len(txs) = 2
  /\ pend[1] # Idle

\* the fields a response body may have
BodyFields ==
  {"error", "message", "token", "transactions", "pagination", "exception",
   "totalRevenue", "monthlyGrowth", "cashFlow"}

\* the body has no password and no password hash in it
NoCredentialsIn(body) ==
  /\ DOMAIN body \subseteq BodyFields
  /\ "token" \in DOMAIN body =>
       DOMAIN body.token.payload \subseteq {"t", "id", "email", "iat", "exp"}
  /\ "transactions" \in DOMAIN body =>
       \A i \in 1..Len(body.transactions) :
         "password" \notin DOMAIN body.transactions[i]

\* C24: the password column of every user row is the hash of the password
\* of the signup that made the row, never the password itself; no response
\* body holds a password or a password hash; the body of a signup answered
\* 201 is only {message}.
C24_PasswordNeverExposed ==
  /\ \A i \in 1..Len(users) :
       \E a \in signedUp :
         /\ a.email = users[i].email
         /\ users[i].password.digest = <<users[i].password.salt, BcryptKey(a.password)>>
         /\ users[i].password.salt \in Salts
  /\ last # NoRequest => NoCredentialsIn(last.body)
  /\ (last.route = "signup" /\ last.status = 201) =>
       last.body = [message |-> "User created"]

\* the second of two users has logged in and got its token
C24_Witness ==
  /\ last.route = "login" /\ last.status = 200
  /\ Len(users) = 2
  /\ last.body.token.payload.id = 2

\* the password of the signup that made row i of users
SignupPassword(i) ==
  CHOOSE pw \in {a.password : a \in signedUp} :
    [email |-> users[i].email, password |-> pw] \in signedUp

\* C25: two hashes of one password made with different salts differ, the
\* password of the signup verifies against its hash and no other password
\* does; a login with the password of the signup is answered 200 and a
\* login with another password for that email is answered 401.
C25_SaltedAndVerifiable ==
  /\ \A i \in 1..Len(users) :
       /\ bcryptCompare(SignupPassword(i), users[i].password)
       /\ \A q \in HashPasswords :
            q # SignupPassword(i) => ~bcryptCompare(q, users[i].password)
       /\ \A j \in 1..Len(users) :
            (SignupPassword(j) = SignupPassword(i)
               /\ users[j].password.salt # users[i].password.salt) =>
              users[j].password # users[i].password \/ i = j
  /\ KnownCredentials => last.status = 200
  /\ (ValidatedLogin /\ OtherPassword) => last.status = 401


\* the create answered last came with a token of login, a calendar date,
\* a type of the two and a number as the amount
WellFormedCreate ==
  /\ last.route = "create"
  /\ OwnToken
  /\ last.input # Null
  /\ IsStr(last.input.date) /\ last.input.date.s \in CalendarDates
  /\ IsStr(last.input.type) /\ last.input.type.s \in TransactionTypes
  /\ IsNum(last.input.amount) /\ ~IsNaN(last.input.amount)

\* C26: in both routers an authenticated create with a valid date, a valid
\* type and any numeric amount, of either sign or 0, is answered 201 and the
\* row it stores has the amount as submitted.
C26_AmountStoredAsSent ==
  WellFormedCreate =>
    /\ last.status = 201
    /\ Len(txs) >= 1
    /\ txs[Len(txs)].amount = last.input.amount.n
    /\ txs[Len(txs)].type = last.input.type.s


\* the token names row i of users
TokenOfRow(tk, i) ==
  tk.payload.id = users[i].id /\ tk.payload.email = users[i].email

\* the login answered last got a token
LoginGranted == last.route = "login" /\ last.status = 200

\* the login answered last named row i, its password verified against the
\* hash of the row and is the password row i signed up with, and the token
\* it got names row i
GrantedToOwner ==
  \E i \in 1..Len(users) :
    /\ users[i].email = last.input.email.s
    /\ bcryptCompare(last.input.password.s, users[i].password)
    /\ last.input.password.s = SignupPassword(i)
    /\ TokenOfRow(last.body.token, i)

\* C27: a token is issued only by a login whose password verified against
\* the hash of the row with its email, the token names that row, and the
\* request presented the password of that user.
C27_TokenOnlyForOwnPassword ==
  [][ /\ issued' # issued =>
           LoginGranted' /\ issued' = issued \cup {last'.body.token}
      /\ LoginGranted' => GrantedToOwner' ]_vars


\* a response has just been given by a route, or with a status, that the
\* claim says writes nothing
ReadOnlyAnswer(resp) ==
  /\ resp # NoRequest
  /\ \/ resp.route \in {"login", "metrics", "list", "other"}
     \/ resp.status \in {400, 401, 404, 409}

\* C28: login, metrics, list, every request answered 400, 401, 404 or 409
\* and every unmatched request leave users and transactions as they were;
\* users changes only by a signup answered 201, which adds exactly one row,
\* and transactions changes only by a create answered 201.
C28_OnlySignupAndCreateWrite ==
  [][ /\ (last' # last /\ ReadOnlyAnswer(last')) => (users' = users /\ txs' = txs)
      /\ users' # users =>
           /\ last'.route = "signup" /\ last'.status = 201
           /\ Len(users') = Len(users) + 1
           /\ SubSeq(users', 1, Len(users)) = users
           /\ txs' = txs
      /\ txs' # txs =>
           /\ last'.route = "create" /\ last'.status = 201
           /\ users' = users ]_vars

\* with rows in both tables, a signup has been answered 409
C28_Witness ==
  /\ Len(users) >= 1 /\ Len(txs) >= 1
  /\ last # NoRequest
  /\ last.route = "signup" /\ last.status = 409


\* C29: an authenticated GET /api/metrics is answered with the fixed body
\* {totalRevenue: 100000, monthlyGrowth: 10.5, cashFlow: 50000}, whoever the
\* user and whatever the ledger holds, and reads no store.
C29_MetricsAreFixed ==
  (last.route = "metrics" /\ last.status = 200) =>
    /\ last.body = [totalRevenue |-> 100000, monthlyGrowth |-> "10.5", cashFlow |-> 50000]
    /\ last.db = {}

\* the second user reads the metrics while the ledger holds rows of the
\* first user only
C29_Witness ==
  /\ last.route = "metrics" /\ last.status = 200
  /\ OwnToken /\ last.hdr.token.payload.id = 2
  /\ Len(txs) = MaxTxs
  /\ \A i \in 1..Len(txs) : txs[i].user_id = 1


\* parseJSON gave no object for the body of the request answered last: the
\* body was not JSON
Unparsed(resp) == resp.input = Null \/ resp.input = Thrown

\* C30: a body that is not JSON makes no handler throw: signup, login and
\* the create of an authenticated caller answer 400 and touch no store.
C30_UnparseableBodyIs400 ==
  /\ (last.route \in {"signup", "login"} /\ Unparsed(last)) =>
       /\ last.status = 400
       /\ "exception" \notin DOMAIN last.body
       /\ last.db = {}
  /\ (last.route = "create" /\ OwnToken /\ Unparsed(last)) =>
       /\ last.status = 400
       /\ "exception" \notin DOMAIN last.body
       /\ last.db = {}

\* a create without JSON from a caller with a token of login, while both
\* tables hold rows
C30_Witness ==
  /\ last.route = "create" /\ OwnToken /\ Unparsed(last)
  /\ last.status = 400
  /\ Len(users) = 2 /\ Len(txs) >= 1

====
